---- MODULE Spec2Model ----
(***************************************************************************)
(* A state-machine model of the two stages of the ontology diff curator:   *)
(* scrape_repo (the PR/issue harvester) and analyze_repo (the diff         *)
(* orchestrator), with the helpers of utils.py they call.                  *)
(*                                                                         *)
(* Two variants of the pipeline are in the sources: ontodiff_curator (the  *)
(* later one) and onto_diff_curator (the earlier one).  The variable       *)
(* `variant` selects which scrape_repo runs.                               *)
(*                                                                         *)
(* Text (file names, PR body words) is modelled as sequences of            *)
(* one-character strings, so that split, startswith, endswith, `in` and    *)
(* isdigit are computed as the code computes them.                         *)
(***************************************************************************)
EXTENDS Integers, Sequences, FiniteSets, TLC

VARIABLES
    \* ---- scrape_repo ----
    variant,             \* which package's scrape_repo runs
    repo,                \* the repo argument
    overwrite,           \* the overwrite argument
    output_given,        \* whether output_file was passed by the caller
    pull_requests,       \* the listing the for loop iterates over
    pr_idx,              \* position of the for loop in pull_requests
    pc,                  \* position of the control flow
    pr_entry,            \* the dict built for the current PR
    issue_idx,           \* position of the loop over issue_numbers
    file_idx,            \* position of the loop over pr.get_files()
    raw_store,           \* the intermediate store: the sequence of YAML fragments in the file
    first_line_written,  \* local flag of ontodiff_curator.scrape_repo
    faults,              \* number of failures injected so far (bounded)
    handled,             \* which except clause the latest step ended in
    slept,               \* time.sleep of the latest step, in hundredths of a second
    observed,            \* what the calls of the latest step returned or raised
    unchecked_calls,     \* forge calls issued since the latest check_rate_limit (saturating)
    appended,            \* history: positions of the PRs whose entry was dumped, in order
    visited,             \* history: positions the for loop has reached
    \* ---- analyze_repo ----
    output_exists,       \* whether the final store file exists
    final_store,         \* the final store: the sequence of YAML fragments in the file
    first_change_found,  \* local flag of analyze_repo
    list_of_dicts,       \* the records the for loop iterates over
    rec_idx,             \* position of the for loop in list_of_dicts
    tmp,                 \* the temporary directory: path -> content
    timeouts,            \* number of read timeouts injected so far (bounded)
    processed,           \* history: positions of list_of_dicts the loop body was entered for
    failed_fetch,        \* history: positions for which a download ended by a request failure
    written              \* history: for each record appended, its position and what was diffed

scrape_vars == << variant, repo, overwrite, output_given, pull_requests, pr_idx, pc,
                  pr_entry, issue_idx, file_idx, raw_store, first_line_written,
                  faults, handled, slept, observed, unchecked_calls, appended, visited >>

scrape_vars_but_pc_slept == << variant, repo, overwrite, output_given, pull_requests, pr_idx,
                              pr_entry, issue_idx, file_idx, raw_store, first_line_written,
                              faults, handled, unchecked_calls, appended, visited >>

analyze_vars == << output_exists, final_store, first_change_found, list_of_dicts, rec_idx,
                   tmp, timeouts, processed, failed_fetch, written >>

vars == << scrape_vars, analyze_vars >>

-----------------------------------------------------------------------------
(* Bounds of the model *)

MaxPRs == 2
MaxFaults == 1
MaxRecords == 3
MaxAnalyzed == 2
MaxTimeouts == 2
MaxFetchRecords == 1
MaxUncheckedCalls == 2

(* Program constants.  The model counts time in hundredths of a second, so that the  *)
(* pacing sleep of 0.72 s is the integer 72; the other times are in seconds, as in    *)
(* the code, and are multiplied by 100 where they are slept.                          *)

PACING_SLEEP_HUNDREDTHS == 72
COOLDOWN_SECONDS == 60
BUFFER_SECONDS == 10
LOW_QUOTA == 10
MERGED_STATUS == 204
RETRY_DELAY == 300

-----------------------------------------------------------------------------
(* Text helpers *)

Digits == {"0", "1", "2", "3", "4", "5", "6", "7", "8", "9"}

DigitValue(c) ==
    CASE c = "0" -> 0 [] c = "1" -> 1 [] c = "2" -> 2 [] c = "3" -> 3 [] c = "4" -> 4
      [] c = "5" -> 5 [] c = "6" -> 6 [] c = "7" -> 7 [] c = "8" -> 8 [] c = "9" -> 9

\* str.startswith
StartsWith(s, p) == Len(s) >= Len(p) /\ SubSeq(s, 1, Len(p)) = p

\* str.endswith
EndsWith(s, p) == Len(s) >= Len(p) /\ SubSeq(s, Len(s) - Len(p) + 1, Len(s)) = p

\* `p in s` for strings
Contains(s, p) == \E i \in 1..(Len(s) - Len(p) + 1) : SubSeq(s, i, i + Len(p) - 1) = p

\* str.isdigit: non-empty and every character a digit
IsDigit(s) == Len(s) > 0 /\ \A i \in 1..Len(s) : s[i] \in Digits

DigitChar(d) ==
    CASE d = 0 -> "0" [] d = 1 -> "1" [] d = 2 -> "2" [] d = 3 -> "3" [] d = 4 -> "4"
      [] d = 5 -> "5" [] d = 6 -> "6" [] d = 7 -> "7" [] d = 8 -> "8" [] d = 9 -> "9"

\* str() of a natural number
RECURSIVE ToDigits(_)
ToDigits(n) == IF n < 10 THEN << DigitChar(n) >>
               ELSE Append(ToDigits(n \div 10), DigitChar(n % 10))

\* int() of a digit string
RECURSIVE ToInt(_)
ToInt(s) == IF Len(s) = 0 THEN 0
            ELSE 10 * ToInt(SubSeq(s, 1, Len(s) - 1)) + DigitValue(s[Len(s)])

Range(s) == { s[i] : i \in 1..Len(s) }

Max(a, b) == IF a >= b THEN a ELSE b

\* str.split(): the maximal runs of non-whitespace characters
RECURSIVE SplitFrom(_, _, _)
SplitFrom(s, i, word) ==
    IF i > Len(s) THEN (IF word = << >> THEN << >> ELSE << word >>)
    ELSE IF s[i] = " " THEN (IF word = << >> THEN << >> ELSE << word >>) \o SplitFrom(s, i + 1, << >>)
    ELSE SplitFrom(s, i + 1, Append(word, s[i]))

Split(s) == SplitFrom(s, 1, << >>)

\* str.split(".")[-1]: the text after the last "."
RECURSIVE AfterLastDot(_)
AfterLastDot(s) ==
    IF s = << >> THEN << >>
    ELSE IF s[Len(s)] = "." THEN << >>
    ELSE Append(AfterLastDot(SubSeq(s, 1, Len(s) - 1)), s[Len(s)])

-----------------------------------------------------------------------------
(* The forge and the inputs of scrape_repo *)

Variants == {"ontodiff_curator", "onto_diff_curator"}

Repos == {"geneontology/go-ontology", "obophenotype/cell-ontology"}

\* the two entries of the table the model uses, file names shortened
REPO_RESOURCE_MAP(r) ==
    IF r = "geneontology/go-ontology" THEN << "g", ".", "o", "b", "o" >>
    ELSE << "c", ".", "o", "w", "l" >>

\* changed-file names of a PR, built around the resource name of the repo
InSrcDir(r) == << "s", "/" >> \o REPO_RESOURCE_MAP(r)
InOtherDir(r) == << "t", "/" >> \o REPO_RESOURCE_MAP(r)
TopLevel(r) == REPO_RESOURCE_MAP(r)
Readme == << "R", "M" >>

\* PR bodies: None, the empty string, and texts with issue references
Body(t) == [none |-> FALSE, text |-> t]
NoneBody == [none |-> TRUE, text |-> << >>]
EmptyBody == Body(<< >>)
Fixes50 == Body(<< "F", " ", "#", "5", "0" >>)
Fixes50And51 == Body(<< "F", " ", "#", "5", "0", " ", "&", " ", "#", "5", "1" >>)
Fixes51 == Body(<< "#", "5", "1" >>)
NoRef == Body(<< "#", "5", "x", " ", "#" >>)

\* issues and pull requests share one numbering: #50 is an issue, #51 and the listed
\* PRs (#100, #101, ...) are pull requests
IsPullRequest_Never(n) == FALSE

IsPullRequest(n) == n = 51 \/ n >= 100

PR(m, b, f) == [merged |-> m, body |-> b, files |-> f]

PRShapes(r) ==
    { PR(TRUE, Fixes50, << InSrcDir(r) >>),
      PR(TRUE, Fixes50And51, << InSrcDir(r), Readme >>),
      PR(TRUE, Fixes50, << Readme, InSrcDir(r), InOtherDir(r) >>),
      PR(TRUE, Fixes50, << TopLevel(r) >>),
      PR(TRUE, Fixes51, << InSrcDir(r) >>),
      PR(TRUE, NoRef, << InSrcDir(r) >>),
      PR(TRUE, NoneBody, << InSrcDir(r) >>),
      PR(TRUE, EmptyBody, << InSrcDir(r) >>),
      PR(TRUE, Fixes50, << >>),
      PR(FALSE, Fixes50, << InSrcDir(r) >>) }

Listings(r) == UNION { [1..n -> PRShapes(r)] : n \in 1..MaxPRs }

\* pr.number of the PR at position k of the listing
Number(k) == 99 + k

\* truthiness of pr.body
Truthy(b) == ~b.none /\ Len(b.text) > 0

IsIssueRef(word) == StartsWith(word, << "#" >>) /\ IsDigit(Tail(word))

\* [int(word[1:]) for word in pr.body.split() if word.startswith("#") and word[1:].isdigit()]
IssueNumbers(b) ==
    LET refs == SelectSeq(Split(b.text), IsIssueRef)
    IN  [i \in 1..Len(refs) |-> ToInt(Tail(refs[i]))]

-----------------------------------------------------------------------------
(* scrape_repo *)

\* the file filter of the two variants
MatchesResource(v, r, filename) ==
    IF v = "ontodiff_curator"
    THEN EndsWith(filename, << "/" >> \o REPO_RESOURCE_MAP(r))
    ELSE Contains(filename, REPO_RESOURCE_MAP(r))

\* the raw-content URL of a file at a commit of a PR: https://github.com/{repo}/raw/{sha}/{filename}
Url(r, sha, filename) == [host |-> "github.com", repo |-> r, sha |-> sha, filename |-> filename]

\* pr.base.sha and pr.head.sha of the PR with the given number
BaseSha(number) == << "base", number >>
HeadSha(number) == << "head", number >>

\* the file_data dict collected for a matching file
FileData(r, number, filename) ==
    [filename |-> filename,
     url_on_main |-> Url(r, BaseSha(number), filename),
     url_in_pr |-> Url(r, HeadSha(number), filename)]

\* title, body, labels and comments of a PR, as one value
Narrative(number) == << "narrative", number >>

EmptyEntry == [closed_issues |-> << >>, changed_files |-> << >>]

\* a write condition that forgets the closed issues
WriteCondition_FilesOnly(entry) == Len(entry.changed_files) > 0

\* the condition under which pr_entry is dumped
WriteCondition(entry) == Len(entry.changed_files) > 0 /\ Len(entry.closed_issues) > 0

\* the identifier of a PR in the stores: f"pr{pr.number}", or f"pull_request_{pr.number}"
PrNumberKey(v, number) ==
    IF v = "ontodiff_curator" THEN << "p", "r" >> \o ToDigits(number)
    ELSE << "p", "u", "l", "l", "_" >> \o ToDigits(number)

\* one YAML fragment appended to the intermediate store
Fragment(kind, k, entry) ==
    [kind |-> kind, pr_number |-> PrNumberKey(variant, Number(k)),
     narrative |-> Narrative(Number(k)),
     closed_issues |-> entry.closed_issues, changed_files |-> entry.changed_files]

\* what one dump of pr_entry appends: the first dump of a run of ontodiff_curator carries
\* the pull_requests key, the later ones are list fragments; onto_diff_curator dumps one
\* mapping per PR
Dumped(v, flw, k, entry) ==
    IF v = "onto_diff_curator" THEN Fragment("mapping", k, entry)
    ELSE IF ~flw THEN Fragment("header", k, entry)
    ELSE Fragment("item", k, entry)

\* the latest step made no call whose result is recorded
NoCall == [call |-> "none"]

\* (remaining, reset_timestamp, current_timestamp) as check_rate_limit returns them; delta
\* is reset_timestamp - current_timestamp in seconds
RateLimitReport(remaining, delta) ==
    [call |-> "check_rate_limit", remaining |-> remaining, delta |-> delta]

\* the forge calls issued since the latest rate-limit check, after n more calls; the
\* count stops at MaxUncheckedCalls
Issued(n) ==
    IF unchecked_calls + n > MaxUncheckedCalls THEN MaxUncheckedCalls ELSE unchecked_calls + n

\* the outcomes of a call that can fail: failures are injected at most MaxFaults times
Outcomes == {"ok"} \cup (IF faults < MaxFaults THEN {"ratelimit", "error"} ELSE { })

\* where the for loop enters the body for one PR
LoopEntry == IF variant = "ontodiff_curator" THEN "probe" ELSE "entry"

\* the for loop moves on to the next PR of the listing, or ends
NextPR ==
    /\ pr_entry' = EmptyEntry
    /\ issue_idx' = 1
    /\ file_idx' = 1
    /\ IF pr_idx < Len(pull_requests)
       THEN /\ pr_idx' = pr_idx + 1
            /\ pc' = LoopEntry
            /\ visited' = visited \cup {pr_idx + 1}
       ELSE /\ pc' = "done"
            /\ UNCHANGED << pr_idx, visited >>

\* except RateLimitExceededException: sleep 60 s, continue
\* except Exception: log; the loop body ends
Except(kind) ==
    /\ handled' = (IF kind = "ratelimit" THEN "RateLimitExceededException" ELSE "Exception")
    /\ slept' = (IF kind = "ratelimit" THEN 100 * COOLDOWN_SECONDS ELSE 0)
    /\ observed' = NoCall
    /\ faults' = faults + 1
    /\ NextPR

NoExcept == handled' = "none" /\ UNCHANGED faults

\* lines 78-100: the default output file is unlinked when overwriting
ScrapeStart ==
    /\ pc = "start"
    /\ raw_store' = (IF variant = "ontodiff_curator"
                     THEN (IF ~output_given /\ overwrite THEN << >> ELSE raw_store)
                     ELSE (IF ~output_given THEN << >> ELSE raw_store))
    /\ IF Len(pull_requests) > 0
       THEN pc' = LoopEntry /\ pr_idx' = 1 /\ visited' = {1}
       ELSE pc' = "done" /\ UNCHANGED << pr_idx, visited >>
    /\ slept' = 0
    /\ observed' = NoCall
    /\ NoExcept
    /\ UNCHANGED analyze_vars
    /\ UNCHANGED << variant, repo, overwrite, output_given, pull_requests, pr_entry,
                    issue_idx, file_idx, first_line_written, appended, unchecked_calls >>

\* the status of GET /repos/{repo}/pulls/{number}/merge
ProbeStatus_AlwaysMerged(pr) == MERGED_STATUS

ProbeStatus(pr) == IF pr.merged THEN MERGED_STATUS ELSE 404

\* the merge-status probe of ontodiff_curator, made outside the try block
MergeProbe ==
    /\ pc = "probe"
    /\ \E out \in Outcomes \ {"ratelimit"} :
         IF out = "error"
         THEN /\ pc' = "aborted"
              /\ faults' = faults + 1
              /\ handled' = "uncaught"
              /\ slept' = 0
              /\ observed' = NoCall
              /\ UNCHANGED << pr_idx, visited, pr_entry, issue_idx, file_idx >>
         ELSE /\ slept' = 0
              /\ observed' = NoCall
              /\ NoExcept
              /\ IF ProbeStatus(pull_requests[pr_idx]) = MERGED_STATUS
                 THEN pc' = "entry" /\ UNCHANGED << pr_idx, visited, pr_entry, issue_idx, file_idx >>
                 ELSE NextPR
    /\ UNCHANGED analyze_vars
    /\ UNCHANGED << variant, repo, overwrite, output_given, pull_requests, raw_store,
                    first_line_written, appended, unchecked_calls >>

\* pr_entry is initialised (pr.get_comments() is a forge call); then the body test
BuildEntry ==
    /\ pc = "entry"
    /\ unchecked_calls' = Issued(1)
    /\ \E out \in Outcomes :
         IF out # "ok" THEN Except(out)
         ELSE /\ NoExcept
              /\ slept' = 0
              /\ observed' = NoCall
              /\ pr_entry' = EmptyEntry
              /\ issue_idx' = 1
              /\ file_idx' = 1
              /\ UNCHANGED << pr_idx, visited >>
              /\ pc' = (IF ~Truthy(pull_requests[pr_idx].body) THEN "pace"
                        ELSE IF Len(IssueNumbers(pull_requests[pr_idx].body)) > 0 THEN "issue"
                        ELSE "files")
    /\ UNCHANGED analyze_vars
    /\ UNCHANGED << variant, repo, overwrite, output_given, pull_requests, raw_store,
                    first_line_written, appended >>

\* one turn of the loop over issue_numbers: get_issue, and for a true issue get_comments
GetIssue ==
    /\ pc = "issue"
    /\ \E out \in Outcomes :
         IF out # "ok" THEN Except(out) /\ unchecked_calls' = Issued(1)
         ELSE LET nums == IssueNumbers(pull_requests[pr_idx].body)
                  n == nums[issue_idx]
              IN  /\ NoExcept
                  \* get_issue, and issue.get_comments() for a true issue
                  /\ unchecked_calls' = Issued(IF IsPullRequest(n) THEN 1 ELSE 2)
                  /\ slept' = 0
                  /\ observed' = NoCall
                  /\ pr_entry' = (IF ~IsPullRequest(n)
                                  THEN [pr_entry EXCEPT !.closed_issues = Append(@, n)]
                                  ELSE pr_entry)
                  /\ issue_idx' = issue_idx + 1
                  /\ pc' = (IF issue_idx < Len(nums) THEN "issue" ELSE "files")
                  /\ UNCHANGED << pr_idx, visited, file_idx >>
    /\ UNCHANGED analyze_vars
    /\ UNCHANGED << variant, repo, overwrite, output_given, pull_requests, raw_store,
                    first_line_written, appended >>

\* where control goes when the loop over the changed files ends
AfterFiles == IF variant = "ontodiff_curator" THEN "pace" ELSE "write"

\* files = pr.get_files()
GetFiles ==
    /\ pc = "files"
    /\ unchecked_calls' = Issued(1)
    /\ \E out \in Outcomes :
         IF out # "ok" THEN Except(out)
         ELSE /\ NoExcept
              /\ slept' = 0
              /\ observed' = NoCall
              /\ file_idx' = 1
              /\ pc' = (IF Len(pull_requests[pr_idx].files) > 0 THEN "file" ELSE AfterFiles)
              /\ UNCHANGED << pr_idx, visited, pr_entry, issue_idx >>
    /\ UNCHANGED analyze_vars
    /\ UNCHANGED << variant, repo, overwrite, output_given, pull_requests, raw_store,
                    first_line_written, appended >>

\* whether the write sits inside the loop over the changed files
WriteInsideFileLoop(v) == v = "ontodiff_curator"

\* one turn of the loop over files: the matching file is collected; in ontodiff_curator
\* the write condition is tested and the entry dumped inside this loop
FileStep ==
    /\ pc = "file"
    /\ LET f == pull_requests[pr_idx].files[file_idx]
           entry == IF MatchesResource(variant, repo, f)
                    THEN [pr_entry EXCEPT !.changed_files = Append(@, FileData(repo, Number(pr_idx), f))]
                    ELSE pr_entry
           more == file_idx < Len(pull_requests[pr_idx].files)
       IN  IF WriteInsideFileLoop(variant) /\ WriteCondition(entry)
           THEN \E out \in Outcomes \ {"ratelimit"} :
                  IF out # "ok" THEN /\ Except(out)
                                     /\ UNCHANGED << raw_store, first_line_written, appended >>
                  ELSE /\ raw_store' = Append(raw_store, Dumped(variant, first_line_written, pr_idx, entry))
                       /\ first_line_written' = TRUE
                       /\ appended' = Append(appended, pr_idx)
                       /\ pr_entry' = entry
                       /\ file_idx' = file_idx + 1
                       /\ pc' = (IF more THEN "file" ELSE AfterFiles)
                       /\ NoExcept
                       /\ slept' = 0
                       /\ observed' = NoCall
                       /\ UNCHANGED << pr_idx, visited, issue_idx >>
           ELSE /\ pr_entry' = entry
                /\ file_idx' = file_idx + 1
                /\ pc' = (IF more THEN "file" ELSE AfterFiles)
                /\ NoExcept
                /\ slept' = 0
                /\ observed' = NoCall
                /\ UNCHANGED << pr_idx, visited, issue_idx, raw_store, first_line_written, appended >>
    /\ UNCHANGED analyze_vars
    /\ UNCHANGED << variant, repo, overwrite, output_given, pull_requests, unchecked_calls >>

\* onto_diff_curator: the write condition is tested once, after the loop over files
WriteAfterLoop ==
    /\ pc = "write"
    /\ IF WriteCondition(pr_entry)
       THEN \E out \in Outcomes \ {"ratelimit"} :
              IF out # "ok" THEN /\ Except(out)
                                 /\ UNCHANGED << raw_store, first_line_written, appended >>
              ELSE /\ raw_store' = Append(raw_store, Dumped(variant, first_line_written, pr_idx, pr_entry))
                   /\ appended' = Append(appended, pr_idx)
                   /\ pc' = "pace"
                   /\ NoExcept
                   /\ slept' = 0
                   /\ observed' = NoCall
                   /\ UNCHANGED << pr_idx, visited, pr_entry, issue_idx, file_idx, first_line_written >>
       ELSE /\ pc' = "pace"
            /\ NoExcept
            /\ slept' = 0
            /\ observed' = NoCall
            /\ UNCHANGED << pr_idx, visited, pr_entry, issue_idx, file_idx, raw_store,
                            first_line_written, appended >>
    /\ UNCHANGED analyze_vars
    /\ UNCHANGED << variant, repo, overwrite, output_given, pull_requests, unchecked_calls >>

\* what check_rate_limit can report: remaining quota, and reset time minus current time (s)
RemainingValues == {3, 9, 10}
ResetDeltas == {-30, 20}

\* a caller that takes the short delay whatever check_rate_limit reports
PacingSleep_AlwaysShort(remaining, delta) == PACING_SLEEP_HUNDREDTHS

\* the sleep the caller takes after check_rate_limit, in hundredths of a second
PacingSleep(remaining, delta) ==
    IF remaining < LOW_QUOTA THEN Max(0, 100 * (delta + BUFFER_SECONDS)) ELSE PACING_SLEEP_HUNDREDTHS

\* the rate-limit check and the sleep that end the try block
Pace ==
    /\ pc = "pace"
    /\ \E out \in Outcomes :
         IF out # "ok" THEN Except(out) /\ UNCHANGED unchecked_calls
         ELSE \E remaining \in RemainingValues, delta \in ResetDeltas :
                /\ unchecked_calls' = 0
                /\ slept' = PacingSleep(remaining, delta)
                /\ observed' = RateLimitReport(remaining, delta)
                /\ NoExcept
                /\ NextPR
    /\ UNCHANGED analyze_vars
    /\ UNCHANGED << variant, repo, overwrite, output_given, pull_requests, raw_store,
                    first_line_written, appended >>

-----------------------------------------------------------------------------
(* The temporary directory and the stores of analyze_repo *)

OBO == << "o", "b", "o" >>
OWL == << "o", "w", "l" >>

\* TMP_DIR / f"{stem}.{extension}"
TmpPath(stem, extension) == [stem |-> stem, extension |-> extension]

TmpPaths == { TmpPath(stem, ext) : stem \in {"new", "old"}, ext \in {OBO, OWL} }

\* the content of a path: no file, or the bytes that came from a URL, which may hold
\* import lines and may have been converted to OBO
NoFile == [absent |-> TRUE]
FileOf(url, imports, converted) ==
    [absent |-> FALSE, url |-> url, imports |-> imports, converted |-> converted]

EmptyTmp == [p \in TmpPaths |-> NoFile]

\* analyze_repo has not started
AnalyzeIdle ==
    /\ output_exists = FALSE
    /\ final_store = << >>
    /\ first_change_found = FALSE
    /\ list_of_dicts = << >>
    /\ rec_idx = 0
    /\ tmp = EmptyTmp
    /\ timeouts = 0
    /\ processed = << >>
    /\ failed_fetch = { }
    /\ written = << >>

\* intermediate stores a run can find on disk: none, or one written by an earlier run
PriorRawStores(v, r) ==
    { << >>,
      << [kind |-> (IF v = "ontodiff_curator" THEN "header" ELSE "mapping"),
          pr_number |-> PrNumberKey(v, 7),
          narrative |-> Narrative(7), closed_issues |-> << 5 >>,
          changed_files |-> << FileData(r, 7, InSrcDir(r)) >>] >> }

ScrapeInit ==
    /\ variant \in Variants
    /\ repo \in Repos
    /\ overwrite \in BOOLEAN
    /\ output_given \in BOOLEAN
    /\ pull_requests \in Listings(repo)
    /\ pr_idx = 0
    /\ pc = "start"
    /\ pr_entry = EmptyEntry
    /\ issue_idx = 1
    /\ file_idx = 1
    /\ raw_store \in PriorRawStores(variant, repo)
    /\ first_line_written = FALSE
    /\ faults = 0
    /\ handled = "none"
    /\ slept = 0
    /\ observed = NoCall
    /\ unchecked_calls = 0
    /\ appended = << >>
    /\ visited = { }
    /\ AnalyzeIdle

ScrapeNext ==
    \/ ScrapeStart
    \/ MergeProbe
    \/ BuildEntry
    \/ GetIssue
    \/ GetFiles
    \/ FileStep
    \/ WriteAfterLoop
    \/ Pace

SpecScrape == ScrapeInit /\ [][ScrapeNext]_vars

-----------------------------------------------------------------------------
(* analyze_repo *)

\* str.strip(chars): leading and trailing characters of the set removed
RECURSIVE LStrip(_, _)
LStrip(s, chars) == IF s # << >> /\ Head(s) \in chars THEN LStrip(Tail(s), chars) ELSE s

RECURSIVE RStrip(_, _)
RStrip(s, chars) ==
    IF s # << >> /\ s[Len(s)] \in chars THEN RStrip(SubSeq(s, 1, Len(s) - 1), chars) ELSE s

Strip(s, chars) == RStrip(LStrip(s, chars), chars)

\* int(pr[PR_NUMBER_KEY].strip("pr"))
PrNumberOf(d) == ToInt(Strip(d.pr_number, {"p", "r"}))

\* whether yaml.safe_load(file)[PULL_REQUESTS_KEY] succeeds on a store: the document must
\* parse (a list fragment can only follow the pull_requests key or another list fragment)
\* and must hold the key
Loadable(store) ==
    /\ \E i \in 1..Len(store) : store[i].kind = "header"
    /\ \A i \in 1..Len(store) :
          store[i].kind = "item" => (i > 1 /\ store[i - 1].kind \in {"header", "item"})

\* yaml.safe_load(file)[PULL_REQUESTS_KEY]: the list under the (last) pull_requests key
PullRequestsOf(store) ==
    LET last == CHOOSE i \in 1..Len(store) :
                    /\ store[i].kind = "header"
                    /\ \A j \in (i + 1)..Len(store) : store[j].kind # "header"
    IN  SubSeq(store, last, Len(store))

\* {int(pr[PR_NUMBER_KEY].strip("pr")) for pr in ...[PULL_REQUESTS_KEY]}
PrNumbers(records) == { PrNumberOf(records[i]) : i \in 1..Len(records) }

\* a remaining set that keeps the analyzed numbers
PrRemaining_AllScraped(scraped, analyzed) == scraped

\* a remaining set that selects the analyzed numbers
PrRemaining_Intersection(scraped, analyzed) == scraped \cap analyzed

\* pr_numbers_scraped - pr_numbers_analyzed
PrRemaining(scraped, analyzed) == scraped \ analyzed

\* url.split(".")[-1]; the file name of a retained file always holds a "."
Extension(url) == AfterLastDot(url.filename)

\* the block written first into a fresh final store
Metadata == [kind |-> "meta"]

\* {key: value for key, value in dictionary.items() if key != PR_CHANGED_FILES_KEY}, with
\* the changes added
OutputDict(dictionary, all_changes) ==
    [key \in (DOMAIN dictionary \ {"changed_files"}) \cup {"changes"} |->
        IF key = "changes" THEN all_changes ELSE dictionary[key]]

\* the fragment one yaml.dump of output_dict appends to the final store
FinalFragment(fcf, output_dict) ==
    [output_dict EXCEPT !.kind = IF ~fcf THEN "header" ELSE "item"]

\* the change lists the diff engine can emit, one line per change
ChangeLists == { << >>, << "create None", "rename A to B" >> }

\* a change list that does not keep the order of the lines
RECURSIVE AllChanges_Reversed(_)
AllChanges_Reversed(emitted) ==
    IF emitted = << >> THEN << >>
    ELSE Append(AllChanges_Reversed(Tail(emitted)), Head(emitted))

\* output.getvalue().splitlines() of the lines the writer emitted
AllChanges(emitted) == emitted

\* a dump that does not look at the change list
WritesRecord_Always(all_changes) == TRUE

\* the condition under which output_dict is dumped
WritesRecord(all_changes) == Len(all_changes) > 0

\* shutil.rmtree(TMP_DIR); makedirs(TMP_DIR)
ClearTmp(t) == EmptyTmp

\* remove_import_lines: the file is rewritten without its import lines; a failure
\* (no such file) is logged and swallowed
RemoveImportLines(t, path) ==
    IF t[path].absent THEN t ELSE [t EXCEPT ![path].imports = FALSE]

\* what the ROBOT run can end with on a file
RobotOutcomes(content) ==
    IF content.absent THEN {"invalid", "failed"} ELSE {"success", "invalid", "failed"}

\* str(owl_file).replace(".owl", ".obo"), and Path.with_suffix(".obo")
OboSibling(path) == TmpPath(path.stem, OBO)

\* an owl2obo that does not tell an invalid ontology file from a converted one
Owl2Obo_InvalidIsSuccess(t, path, outcome) ==
    [tmp |-> RemoveImportLines(t, path),
     result |-> IF outcome = "failed" THEN "RuntimeError" ELSE "None"]

\* owl2obo: imports stripped, ROBOT run; returns None on success and 0 on an invalid
\* ontology file, raises RuntimeError otherwise
Owl2Obo(t, path, outcome) ==
    LET stripped == RemoveImportLines(t, path)
    IN  IF outcome = "success"
        THEN [tmp |-> [stripped EXCEPT ![OboSibling(path)] =
                          FileOf(stripped[path].url, FALSE, TRUE)],
              result |-> "None"]
        ELSE IF outcome = "invalid"
        THEN [tmp |-> stripped, result |-> "0"]
        ELSE [tmp |-> stripped, result |-> "RuntimeError"]

\* how ROBOT ended on new_file_path and on old_file_path in the two calls of owl2obo;
\* the second call is not made when the first one raises
Owl2OboResults(robot_new, robot_old) ==
    [call |-> "owl2obo", robot_new |-> robot_new, robot_old |-> robot_old]

\* how the two calls of get_adapter ended: "ok", or the class of the exception raised;
\* and, when they ended well, the lines the diff of the two adapters emitted
LoadResult(raised, emitted) == [call |-> "get_adapter", raised |-> raised, emitted |-> emitted]

\* the record of the current iteration and what is derived from it
Dictionary == list_of_dicts[rec_idx]
UrlInPr == Dictionary.changed_files[1].url_in_pr
UrlOnMain == Dictionary.changed_files[1].url_on_main
CurrentExtension == Extension(UrlInPr)
NewFilePath == TmpPath("new", CurrentExtension)
OldFilePath == TmpPath("old", CurrentExtension)

\* the for loop moves on to the next record, or ends; t is the temporary directory left
NextRecord(t) ==
    /\ tmp' = t
    /\ IF rec_idx < Len(list_of_dicts)
       THEN /\ rec_idx' = rec_idx + 1
            /\ pc' = "check_new"
            /\ processed' = Append(processed, rec_idx + 1)
       ELSE /\ pc' = "done"
            /\ UNCHANGED << rec_idx, processed >>

\* lines 196-240: the stores are read, the output file is unlinked or kept, the metadata
\* are written, the records to process are selected
AnalyzeStart ==
    /\ pc = "a_start"
    /\ slept' = 0
    /\ observed' = NoCall
    /\ UNCHANGED << scrape_vars_but_pc_slept, tmp, timeouts, failed_fetch, written >>
    /\ IF ~Loadable(raw_store)
       THEN \* the intermediate store is missing or does not hold the key
            /\ pc' = "aborted"
            /\ UNCHANGED << output_exists, final_store, first_change_found, list_of_dicts,
                            rec_idx, processed >>
       ELSE LET data == PullRequestsOf(raw_store)
                Begin(list) ==
                    /\ list_of_dicts' = list
                    /\ IF Len(list) > 0
                       THEN pc' = "check_new" /\ rec_idx' = 1 /\ processed' = << 1 >>
                       ELSE pc' = "done" /\ UNCHANGED << rec_idx, processed >>
            IN  IF output_exists /\ overwrite
                THEN /\ final_store' = << Metadata >>
                     /\ first_change_found' = FALSE
                     /\ UNCHANGED output_exists
                     /\ Begin(data)
                ELSE IF output_exists
                THEN IF ~Loadable(final_store)
                     THEN /\ pc' = "aborted"
                          /\ UNCHANGED << output_exists, final_store, first_change_found,
                                          list_of_dicts, rec_idx, processed >>
                     ELSE LET pr_numbers_scraped == PrNumbers(data)
                              pr_numbers_analyzed == PrNumbers(PullRequestsOf(final_store))
                              pr_remaining == PrRemaining(pr_numbers_scraped, pr_numbers_analyzed)
                              InRemaining(d) == PrNumberOf(d) \in pr_remaining
                          IN  IF pr_numbers_scraped = pr_numbers_analyzed
                              THEN /\ pc' = "returned"
                                   /\ UNCHANGED << output_exists, final_store, first_change_found,
                                                   list_of_dicts, rec_idx, processed >>
                              ELSE /\ first_change_found' = TRUE
                                   /\ UNCHANGED << output_exists, final_store >>
                                   /\ Begin(SelectSeq(data, InRemaining))
                ELSE IF overwrite
                THEN /\ output_exists' = TRUE
                     /\ final_store' = << Metadata >>
                     /\ first_change_found' = TRUE
                     /\ Begin(data)
                ELSE \* the file is created by open(); pr_remaining is unbound at line 240
                     /\ output_exists' = TRUE
                     /\ final_store' = << >>
                     /\ first_change_found' = TRUE
                     /\ pc' = "aborted"
                     /\ UNCHANGED << list_of_dicts, rec_idx, processed >>

\* download_file, first part: the rate-limit check and the sleep before the request.
\* The call sites (main.py lines 252 and 255) pass a fourth positional argument, token,
\* that the definition does not declare; the model follows the body of the definition
\* for url, file_path and g.  An exception that is not a requests exception leaves
\* download_file and analyze_repo uncaught: the second disjunct.
DownloadCheck(side) ==
    /\ pc = (IF side = "new" THEN "check_new" ELSE "check_old")
    /\ \/ \E remaining \in RemainingValues, delta \in ResetDeltas :
            /\ slept' = PacingSleep(remaining, delta)
            /\ observed' = RateLimitReport(remaining, delta)
            /\ pc' = (IF side = "new" THEN "get_new" ELSE "get_old")
       \/ \* check_rate_limit raises an exception of the forge client
          /\ slept' = 0
          /\ observed' = NoCall
          /\ pc' = "aborted"
    /\ UNCHANGED << scrape_vars_but_pc_slept, output_exists, final_store, first_change_found,
                    list_of_dicts, rec_idx, tmp, timeouts, processed, failed_fetch, written >>

\* where analyze_repo continues after the download of one side
AfterDownload(side) ==
    IF side = "new" THEN "check_old"
    ELSE IF CurrentExtension = OWL THEN "normalize" ELSE "load"

\* a handler of ReadTimeout that leaves the while loop
AfterReadTimeout_GiveUp(side) == AfterDownload(side)

\* where download_file continues after the sleep of the ReadTimeout handler: the next
\* turn of `while True`, which starts with the rate-limit check
AfterReadTimeout(side) == IF side = "new" THEN "check_new" ELSE "check_old"

\* a handler that takes the destination file away
OnRequestException_RemovesFile(t, path) == [t EXCEPT ![path] = NoFile]

\* what the handler of a non-timeout request exception does with the destination file
OnRequestException(t, path) == t

\* download_file, second part: the request, the write of the response body, and the
\* two except clauses
DownloadGet(side) ==
    /\ pc = (IF side = "new" THEN "get_new" ELSE "get_old")
    /\ LET url == IF side = "new" THEN UrlInPr ELSE UrlOnMain
           path == IF side = "new" THEN NewFilePath ELSE OldFilePath
       IN  \/ \* success: the response body replaces the file
              /\ tmp' = [tmp EXCEPT ![path] = FileOf(url, TRUE, FALSE)]
              /\ pc' = AfterDownload(side)
              /\ slept' = 0
              /\ observed' = NoCall
              /\ UNCHANGED << timeouts, failed_fetch >>
           \/ \* ReadTimeout: sleep RETRY_DELAY, next turn of the while loop
              /\ timeouts < MaxTimeouts
              /\ timeouts' = timeouts + 1
              /\ slept' = 100 * RETRY_DELAY
              /\ observed' = NoCall
              /\ pc' = AfterReadTimeout(side)
              /\ UNCHANGED << tmp, failed_fetch >>
           \/ \* any other RequestException (HTTP 404, ...): logged, the loop is left
              /\ tmp' = OnRequestException(tmp, path)
              /\ failed_fetch' = failed_fetch \cup {rec_idx}
              /\ pc' = AfterDownload(side)
              /\ slept' = 0
              /\ observed' = NoCall
              /\ UNCHANGED timeouts
    /\ UNCHANGED << scrape_vars_but_pc_slept, output_exists, final_store, first_change_found,
                    list_of_dicts, rec_idx, processed, written >>

\* the temporary directory after the `continue` of a skipped record (lines 262 and 270),
\* which leaves the loop body before the cleanup of lines 300-301
AfterSkip(t) == t

\* lines 258-264: both files are converted; an invalid one skips the record
Normalize ==
    /\ pc = "normalize"
    /\ slept' = 0
    /\ UNCHANGED << scrape_vars_but_pc_slept, output_exists, final_store, first_change_found,
                    list_of_dicts, timeouts, failed_fetch, written >>
    /\ \E out_n \in RobotOutcomes(tmp[NewFilePath]) :
         LET n == Owl2Obo(tmp, NewFilePath, out_n)
         IN  IF n.result = "RuntimeError"
             THEN /\ pc' = "aborted"
                  /\ tmp' = n.tmp
                  /\ observed' = Owl2OboResults(out_n, "not run")
                  /\ UNCHANGED << rec_idx, processed >>
             ELSE \E out_o \in RobotOutcomes(n.tmp[OldFilePath]) :
                    LET o == Owl2Obo(n.tmp, OldFilePath, out_o)
                    IN  /\ observed' = Owl2OboResults(out_n, out_o)
                        /\ IF o.result = "RuntimeError"
                           THEN /\ pc' = "aborted"
                                /\ tmp' = o.tmp
                                /\ UNCHANGED << rec_idx, processed >>
                           ELSE IF n.result = "0" \/ o.result = "0"
                           THEN NextRecord(AfterSkip(o.tmp))
                           ELSE /\ pc' = "load"
                                /\ tmp' = o.tmp
                                /\ UNCHANGED << rec_idx, processed >>

\* the paths handed to get_adapter
LoadPath(path) == IF CurrentExtension = OWL THEN OboSibling(path) ELSE path

\* what get_adapter ends with on the two files: a missing file raises FileNotFoundError
LoadOutcomes(new_content, old_content) ==
    IF new_content.absent \/ old_content.absent THEN {"FileNotFoundError"}
    ELSE {"ok", "ValueError", "other"}

\* a dump into a file that was opened again for writing
Dump_Truncating(store, fragment) == << fragment >>

\* yaml.dump(..., of) into the file opened at line 235: the fragment goes to the end
Dump(store, fragment) == Append(store, fragment)

\* except (ValueError, FileNotFoundError): log, continue
SkipsRecord(raised) == raised \in {"ValueError", "FileNotFoundError"}

\* lines 265-301: both files are loaded, diffed, the record written, the directory cleared
LoadDiffWrite ==
    /\ pc = "load"
    /\ slept' = 0
    /\ UNCHANGED << scrape_vars_but_pc_slept, output_exists, list_of_dicts, timeouts,
                    failed_fetch >>
    /\ LET adapter_new == tmp[LoadPath(NewFilePath)]
           adapter_old == tmp[LoadPath(OldFilePath)]
       IN  \E out \in LoadOutcomes(adapter_new, adapter_old) :
             /\ IF SkipsRecord(out)
                THEN \* logged, continue
                     /\ observed' = LoadResult(out, << >>)
                     /\ NextRecord(AfterSkip(tmp))
                     /\ UNCHANGED << final_store, first_change_found, written >>
                ELSE IF out = "other"
                THEN \* raise e
                     /\ observed' = LoadResult(out, << >>)
                     /\ pc' = "aborted"
                     /\ UNCHANGED << final_store, first_change_found, written, tmp, rec_idx,
                                     processed >>
                ELSE \E emitted \in ChangeLists :
                       LET all_changes == AllChanges(emitted)
                           output_dict == OutputDict(Dictionary, all_changes)
                       IN  /\ observed' = LoadResult(out, emitted)
                           /\ IF WritesRecord(all_changes)
                              THEN /\ final_store' = Dump(final_store,
                                                       FinalFragment(first_change_found, output_dict))
                                   /\ first_change_found' = TRUE
                                   /\ written' = Append(written,
                                                   [rec |-> rec_idx, new |-> adapter_new.url,
                                                    old |-> adapter_old.url, emitted |-> emitted])
                              ELSE UNCHANGED << final_store, first_change_found, written >>
                           /\ NextRecord(ClearTmp(tmp))

\* the orders in which PR numbers occur in the stores a run can find: not sorted, not
\* contiguous, and with a PR written twice (scrape_repo can dump one PR more than once)
NumberPatterns == { << 100, 7, 23 >>, << 7, 100, 7 >>, << 23, 23, 100 >> }

\* the first n numbers of a pattern, repeated as often as needed
NumbersOf(pattern, n) == [i \in 1..n |-> pattern[((i - 1) % Len(pattern)) + 1]]

NumberLists(shortest, longest) ==
    { NumbersOf(pattern, n) : pattern \in NumberPatterns, n \in shortest..longest }

\* one record of the intermediate store as scrape_repo writes it
RawRecord(r, kind, number) ==
    [kind |-> kind, pr_number |-> PrNumberKey("ontodiff_curator", number),
     narrative |-> Narrative(number), closed_issues |-> << 50 >>,
     changed_files |-> IF number = 23
                       THEN << FileData(r, number, InSrcDir(r)), FileData(r, number, InOtherDir(r)) >>
                       ELSE << FileData(r, number, InSrcDir(r)) >>]

\* the intermediate store of a run of scrape_repo that wrote the given PRs
RawStoreOf(r, numbers) ==
    [i \in 1..Len(numbers) |-> RawRecord(r, IF i = 1 THEN "header" ELSE "item", numbers[i])]

\* one record of a final store written by an earlier run
PriorAnalyzed(kind, number) ==
    [kind |-> kind, pr_number |-> PrNumberKey("ontodiff_curator", number),
     narrative |-> Narrative(number), closed_issues |-> << 50 >>,
     changes |-> << "rename A to B" >>]

\* the final stores earlier runs leave: after an overwrite of an existing file the first
\* record carries the pull_requests key; after a run that created the file none does;
\* a run that failed at line 240 leaves the empty file that open() created
PriorFinalStores ==
    { << >>, << Metadata >> } \cup
    UNION { { << Metadata >> \o [i \in 1..Len(numbers) |->
                                     PriorAnalyzed(IF i = 1 THEN "header" ELSE "item", numbers[i])],
              << Metadata >> \o [i \in 1..Len(numbers) |-> PriorAnalyzed("item", numbers[i])] }
            : numbers \in NumberLists(1, MaxAnalyzed) }

AnalyzeInit ==
    /\ variant = "ontodiff_curator"
    /\ repo \in Repos
    /\ overwrite \in BOOLEAN
    /\ output_given = TRUE
    /\ pull_requests = << >>
    /\ pr_idx = 0
    /\ pc = "a_start"
    /\ pr_entry = EmptyEntry
    /\ issue_idx = 1
    /\ file_idx = 1
    /\ raw_store \in { RawStoreOf(repo, numbers) : numbers \in NumberLists(0, MaxRecords) }
    /\ first_line_written = FALSE
    /\ faults = 0
    /\ handled = "none"
    /\ slept = 0
    /\ observed = NoCall
    /\ unchecked_calls = 0
    /\ appended = << >>
    /\ visited = { }
    /\ \/ output_exists = FALSE /\ final_store = << >>
       \/ output_exists = TRUE /\ final_store \in PriorFinalStores
    /\ first_change_found = FALSE
    /\ list_of_dicts = << >>
    /\ rec_idx = 0
    /\ tmp = EmptyTmp
    /\ timeouts = 0
    /\ processed = << >>
    /\ failed_fetch = { }
    /\ written = << >>

AnalyzeNext ==
    \/ AnalyzeStart
    \/ DownloadCheck("new")
    \/ DownloadGet("new")
    \/ DownloadCheck("old")
    \/ DownloadGet("old")
    \/ Normalize
    \/ LoadDiffWrite

SpecAnalyze == AnalyzeInit /\ [][AnalyzeNext]_vars

\* analyze_repo on a fresh final store and a short intermediate store; every step that
\* can be taken is eventually taken (the process is not stopped from outside)
FetchInit ==
    /\ AnalyzeInit
    /\ overwrite
    /\ ~output_exists
    /\ Len(raw_store) <= MaxFetchRecords

SpecFetch == FetchInit /\ [][AnalyzeNext]_vars /\ WF_vars(AnalyzeNext)

-----------------------------------------------------------------------------
(* analyze_repo of onto_diff_curator *)

\* one entry of the intermediate store as scrape_repo of onto_diff_curator writes it
OldRawRecord(r, number) ==
    [kind |-> "mapping", pr_number |-> PrNumberKey("onto_diff_curator", number),
     narrative |-> Narrative(number), closed_issues |-> << 50 >>,
     changed_files |-> << FileData(r, number, InSrcDir(r)) >>]

OldRawStoreOf(r, numbers) == [i \in 1..Len(numbers) |-> OldRawRecord(r, numbers[i])]

\* yaml.safe_load(file).items() of a store of mappings: one item per key, at the place
\* where the key comes first, with the value that comes last
RECURSIVE ItemsFrom(_, _)
ItemsFrom(store, i) ==
    IF i > Len(store) THEN << >>
    ELSE IF \E j \in 1..(i - 1) : store[j].pr_number = store[i].pr_number
    THEN ItemsFrom(store, i + 1)
    ELSE LET last == CHOOSE j \in i..Len(store) :
                        /\ store[j].pr_number = store[i].pr_number
                        /\ \A k \in (j + 1)..Len(store) : store[k].pr_number # store[i].pr_number
         IN  << store[last] >> \o ItemsFrom(store, i + 1)

ItemsOf(store) == ItemsFrom(store, 1)

\* the body of a response whose status is not 200, written to the file all the same
ErrorPage(url) ==
    [absent |-> FALSE, url |-> url, imports |-> FALSE, converted |-> FALSE, error |-> TRUE]

\* the for loop of onto_diff_curator moves on to the next item, or ends
OldNextRecord(t) ==
    /\ tmp' = t
    /\ IF rec_idx < Len(list_of_dicts)
       THEN /\ rec_idx' = rec_idx + 1
            /\ pc' = "o_get_new"
            /\ processed' = Append(processed, rec_idx + 1)
       ELSE /\ pc' = "done"
            /\ UNCHANGED << rec_idx, processed >>

\* lines 161-174: the intermediate store is read, the default output file is unlinked,
\* the output file is opened for appending
OldAnalyzeStart ==
    /\ pc = "o_start"
    /\ slept' = 0
    /\ observed' = NoCall
    /\ UNCHANGED << scrape_vars_but_pc_slept, first_change_found, tmp, timeouts, failed_fetch,
                    written >>
    /\ IF raw_store = << >>
       THEN \* no file, or an empty one: open() or data.items() raises
            /\ pc' = "aborted"
            /\ UNCHANGED << output_exists, final_store, list_of_dicts, rec_idx, processed >>
       ELSE /\ output_exists' = TRUE
            /\ final_store' = (IF ~output_given THEN << >> ELSE final_store)
            /\ list_of_dicts' = ItemsOf(raw_store)
            /\ rec_idx' = 1
            /\ processed' = << 1 >>
            /\ pc' = "o_get_new"

\* lines 183-190: requests.get and the write of response.content, without a look at the
\* status; an exception of requests.get is not caught
OldDownload(side) ==
    /\ pc = (IF side = "new" THEN "o_get_new" ELSE "o_get_old")
    /\ slept' = 0
    /\ observed' = NoCall
    /\ UNCHANGED << scrape_vars_but_pc_slept, output_exists, final_store, first_change_found,
                    list_of_dicts, rec_idx, timeouts, processed, failed_fetch, written >>
    /\ LET url == IF side = "new" THEN UrlInPr ELSE UrlOnMain
           path == IF side = "new" THEN NewFilePath ELSE OldFilePath
       IN  \/ \E content \in {FileOf(url, TRUE, FALSE), ErrorPage(url)} :
                /\ tmp' = [tmp EXCEPT ![path] = content]
                /\ pc' = (IF side = "new" THEN "o_get_old" ELSE "o_load")
           \/ /\ pc' = "aborted"
              /\ UNCHANGED tmp

\* except ValueError: log, continue; except Exception: log, continue
OldSkipsRecord(raised) == raised # "ok"

\* [op for op in output.getvalue().splitlines() if op != "create None"]
OldAllChanges(emitted) ==
    LET Kept(op) == op # "create None" IN SelectSeq(emitted, Kept)

\* {pr_number: {title, body, labels, comments, issue_closed, changes}}
OldOutputDict(content, all_changes) ==
    [kind |-> "mapping", pr_number |-> content.pr_number, narrative |-> content.narrative,
     closed_issues |-> content.closed_issues, changes |-> all_changes]

\* new_file_path.unlink(); old_file_path.unlink()
Unlinked(t) == [t EXCEPT ![NewFilePath] = NoFile, ![OldFilePath] = NoFile]

\* lines 193-244: both files are loaded, diffed, the record written, the files unlinked
OldLoadDiffWrite ==
    /\ pc = "o_load"
    /\ slept' = 0
    /\ UNCHANGED << scrape_vars_but_pc_slept, output_exists, first_change_found, list_of_dicts,
                    timeouts, failed_fetch >>
    /\ IF CurrentExtension \notin {OBO, OWL}
       THEN \* extension not supported: log, continue
            /\ observed' = NoCall
            /\ OldNextRecord(tmp)
            /\ UNCHANGED << final_store, written >>
       ELSE \E out \in LoadOutcomes(tmp[NewFilePath], tmp[OldFilePath]) :
              /\ IF OldSkipsRecord(out)
                 THEN /\ observed' = LoadResult(out, << >>)
                      /\ OldNextRecord(tmp)
                      /\ UNCHANGED << final_store, written >>
                 ELSE \E emitted \in ChangeLists :
                        /\ observed' = LoadResult(out, emitted)
                        /\ final_store' = Dump(final_store,
                                               OldOutputDict(Dictionary, OldAllChanges(emitted)))
                        /\ written' = Append(written,
                                             [rec |-> rec_idx, new |-> tmp[NewFilePath].url,
                                              old |-> tmp[OldFilePath].url, emitted |-> emitted])
                        /\ OldNextRecord(Unlinked(tmp))

\* the final stores an earlier run of onto_diff_curator leaves
OldPriorFinalStores(r) == { << OldOutputDict(OldRawRecord(r, 7), << "rename A to B" >>) >> }

OldAnalyzeInit ==
    /\ variant = "onto_diff_curator"
    /\ repo \in Repos
    /\ overwrite = FALSE
    /\ output_given \in BOOLEAN
    /\ pull_requests = << >>
    /\ pr_idx = 0
    /\ pc = "o_start"
    /\ pr_entry = EmptyEntry
    /\ issue_idx = 1
    /\ file_idx = 1
    /\ raw_store \in { OldRawStoreOf(repo, numbers) : numbers \in NumberLists(0, MaxRecords) }
    /\ first_line_written = FALSE
    /\ faults = 0
    /\ handled = "none"
    /\ slept = 0
    /\ observed = NoCall
    /\ unchecked_calls = 0
    /\ appended = << >>
    /\ visited = { }
    /\ \/ output_exists = FALSE /\ final_store = << >>
       \/ output_exists = TRUE /\ final_store \in OldPriorFinalStores(repo)
    /\ first_change_found = FALSE
    /\ list_of_dicts = << >>
    /\ rec_idx = 0
    /\ tmp = EmptyTmp
    /\ timeouts = 0
    /\ processed = << >>
    /\ failed_fetch = { }
    /\ written = << >>

OldAnalyzeNext ==
    \/ OldAnalyzeStart
    \/ OldDownload("new")
    \/ OldDownload("old")
    \/ OldLoadDiffWrite

SpecAnalyzeOld == OldAnalyzeInit /\ [][OldAnalyzeNext]_vars

\* analyze_repo of either package
SpecAnalyzeBoth ==
    (AnalyzeInit \/ OldAnalyzeInit) /\ [][AnalyzeNext \/ OldAnalyzeNext]_vars

-----------------------------------------------------------------------------
(* Properties of scrape_repo *)

Count(seq, x) == Cardinality({ i \in 1..Len(seq) : seq[i] = x })

IsTrueIssue(n) == ~IsPullRequest(n)

\* the linked issues of a PR that are issues, not pull requests
ClosedIssuesOf(pr) ==
    IF Truthy(pr.body) THEN SelectSeq(IssueNumbers(pr.body), IsTrueIssue) ELSE << >>

\* the changed files of a PR that match the resource file name of the repo
MatchingFilesOf(pr) ==
    LET Match(f) == MatchesResource(variant, repo, f) IN SelectSeq(pr.files, Match)

HasIssueAndFile(pr) == Len(ClosedIssuesOf(pr)) > 0 /\ Len(MatchingFilesOf(pr)) > 0

\* the fragments this run has appended to the intermediate store, oldest first
RunFragments == SubSeq(raw_store, Len(raw_store) - Len(appended) + 1, Len(raw_store))

\* C1: every PR that is merged and has a closed issue and a matching changed file gets
\* exactly one record in one run: never more than one at any point of the run, and, when
\* a run in which no call failed has ended, exactly one.
C1_ExactlyOneRecord ==
    \A k \in 1..Len(pull_requests) :
        (pull_requests[k].merged /\ HasIssueAndFile(pull_requests[k])) =>
            /\ Count(appended, k) <= 1
            /\ (pc = "done" /\ faults = 0) => Count(appended, k) = 1

\* C2: every record of the intermediate store has a closed issue and a changed file, and
\* a record is appended only for a PR with a body, a closed issue and a matching file.
C2_OnlyQualifyingRecords ==
    /\ \A i \in 1..Len(raw_store) :
          Len(raw_store[i].closed_issues) > 0 /\ Len(raw_store[i].changed_files) > 0
    /\ \A i \in 1..Len(appended) :
          Truthy(pull_requests[appended[i]].body) /\ HasIssueAndFile(pull_requests[appended[i]])

\* a run that has ended, wrote a record, and met a PR without a body, one without an
\* issue and one without a matching file
C2_Witness ==
    /\ pc = "done"
    /\ Len(appended) > 0
    /\ \E k \in visited : ~HasIssueAndFile(pull_requests[k]) /\ k \notin Range(appended)

\* C8: a rate-limit exception raised while PR p is processed is followed by the 60 s
\* cool-down and then by the processing of the same PR p.
C8_RetriesSamePR ==
    [][handled' = "RateLimitExceededException" =>
          (slept' = 100 * COOLDOWN_SECONDS /\ pc' = LoopEntry /\ pr_idx' = pr_idx)]_vars

\* C9: a failure while one PR is processed never ends the run, and the run reaches every
\* PR of the listing.
C9_FailureContained ==
    /\ pc # "aborted"
    /\ pc = "done" => visited = 1..Len(pull_requests)

\* scrape_repo: every record appended holds all the closed issues and all the
\* matching changed files of its PR.
ScrapeRecordsComplete ==
    \A i \in 1..Len(appended) :
        LET pr == pull_requests[appended[i]]
            MkFileData(f) == FileData(repo, Number(appended[i]), f)
            matching == MatchingFilesOf(pr)
        IN  /\ RunFragments[i].closed_issues = ClosedIssuesOf(pr)
            /\ RunFragments[i].changed_files = [j \in 1..Len(matching) |-> MkFileData(matching[j])]

-----------------------------------------------------------------------------
(* Properties of analyze_repo *)

\* the fragments this run has appended to the final store, oldest first
RunFinalFragments == SubSeq(final_store, Len(final_store) - Len(written) + 1, Len(final_store))

\* the final store as a run that does not overwrite found it
FoundFinalStore == SubSeq(final_store, 1, Len(final_store) - Len(written))

\* the positions of list_of_dicts for which a record was written
WrittenPositions == { written[i].rec : i \in 1..Len(written) }

\* C3: the temporary directory is empty when the processing of a record starts and when
\* the last record has been processed, whichever branch the records took.
C3_TmpEmptyBetweenRecords == pc \in {"check_new", "done"} => tmp = EmptyTmp

C5_FailedFetchSkipsRecord ==
    /\ failed_fetch \cap WrittenPositions = { }
    /\ (pc = "check_new" /\ (rec_idx - 1) \in failed_fetch) => tmp = EmptyTmp

\* a run resumed on a readable final store that holds a strict subset of the harvested
\* PR numbers
ResumedOnStrictSubset ==
    /\ ~overwrite
    /\ pc \notin {"a_start", "returned"}
    /\ Loadable(raw_store)
    /\ Loadable(FoundFinalStore)
    /\ PrNumbers(PullRequestsOf(FoundFinalStore)) \subseteq PrNumbers(PullRequestsOf(raw_store))
    /\ PrNumbers(PullRequestsOf(FoundFinalStore)) # PrNumbers(PullRequestsOf(raw_store))

AllAlreadyAnalyzed ==
    /\ pc = "a_start"
    /\ ~overwrite
    /\ output_exists
    /\ Loadable(raw_store)
    /\ Loadable(final_store)
    /\ PrNumbers(PullRequestsOf(raw_store)) \subseteq PrNumbers(PullRequestsOf(final_store))

\* C7: such a run ends at once: it leaves the final store and the temporary directory
\* as they are and processes no record.
C7_NothingWrittenWhenAllAnalyzed ==
    [][AllAlreadyAnalyzed =>
          /\ pc' \in {"returned", "done"}
          /\ final_store' = final_store
          /\ output_exists' = output_exists
          /\ processed' = << >>
          /\ written' = << >>
          /\ tmp' = tmp]_vars

\* a run that returned at once from a final store holding more PR numbers than harvested,
\* or exactly the harvested ones
C7_Witness ==
    /\ pc \in {"returned", "done"}
    /\ ~overwrite
    /\ output_exists
    /\ processed = << >>
    /\ Loadable(raw_store)
    /\ Loadable(final_store)
    /\ PrNumbers(PullRequestsOf(raw_store)) \subseteq PrNumbers(PullRequestsOf(final_store))

\* analyze_repo: every record appended holds the whole change list the diff emitted
AnalyzeRecordsComplete ==
    \A i \in 1..Len(written) : RunFinalFragments[i].changes = written[i].emitted

\* C10: no partial record is written to either store: every record scrape_repo appends
\* holds all closed issues and all matching changed files of its PR, and every record
\* analyze_repo appends holds its complete change list.
C10_NoPartialRecord == ScrapeRecordsComplete /\ AnalyzeRecordsComplete

-----------------------------------------------------------------------------
(* Properties of download_file *)

\* the positions in the program of the download of one side
FetchPcs(side) == IF side = "new" THEN {"check_new", "get_new"} ELSE {"check_old", "get_old"}

\* download_file is running for the given side of record k
InFetch(side, k) == rec_idx = k /\ pc \in FetchPcs(side)

\* C11: a download that ends by a request failure other than a read timeout is not
\* retried, and the failure reaches analyze_repo, which leaves the record: the loop moves
\* to the next record (or the run ends) instead of going on with this record.
C11_FailurePropagates ==
    [][failed_fetch' # failed_fetch =>
          /\ timeouts' = timeouts
          /\ (pc' \in {"done", "aborted"} \/ rec_idx' = rec_idx + 1)]_vars

\* the file a download of the given side of the current record writes
Downloaded(side) ==
    IF side = "new" THEN FileOf(UrlInPr, TRUE, FALSE) ELSE FileOf(UrlOnMain, TRUE, FALSE)

DestinationOf(side) == IF side = "new" THEN NewFilePath ELSE OldFilePath

\* C12: download_file never gives up because of read timeouts.  Every read timeout is
\* followed by the sleep of RETRY_DELAY and by a new attempt for the same file of the same
\* record, however many timeouts came before; while the run goes on, a download is left
\* only with the response written to the file or with a request failure that is not a
\* read timeout; and, the timeouts being finitely many, every download ends.
C12_RetriesUntilDone ==
    /\ [][timeouts' = timeouts + 1 =>
              /\ slept' = 100 * RETRY_DELAY
              /\ rec_idx' = rec_idx
              /\ tmp' = tmp
              /\ failed_fetch' = failed_fetch
              /\ \E side \in {"new", "old"} : pc \in FetchPcs(side) /\ pc' \in FetchPcs(side)]_vars
    /\ [][\A side \in {"new", "old"} :
              (pc \in FetchPcs(side) /\ pc' \notin FetchPcs(side) /\ pc' # "aborted") =>
                  \/ tmp'[DestinationOf(side)] = Downloaded(side)
                  \/ rec_idx \in failed_fetch']_vars
    /\ \A side \in {"new", "old"} : \A k \in 1..(MaxFetchRecords + 1) :
          InFetch(side, k) ~> ~InFetch(side, k)

\* the first download of a run timed out as often as the model allows and then wrote
\* the response to the file
C12_Witness ==
    /\ timeouts = MaxTimeouts
    /\ timeouts >= 2
    /\ rec_idx = 1
    /\ pc = "check_old"
    /\ failed_fetch = { }
    /\ tmp[NewFilePath] = FileOf(UrlInPr, TRUE, FALSE)

-----------------------------------------------------------------------------
(* Properties of the rate-limit policy *)

\* C13: whenever check_rate_limit reports a remaining quota below 10, the caller sleeps,
\* in the same step and so before its next remote call, for at least reset - now + 10
\* seconds and never a negative time, and not for the short pacing delay; whenever it
\* reports 10 or more, the caller sleeps for the short pacing delay of 0.72 s.
C13_LowQuotaSleepsUntilReset ==
    [][observed'.call = "check_rate_limit" =>
          IF observed'.remaining < LOW_QUOTA
          THEN /\ slept' >= 0
               /\ slept' >= 100 * (observed'.delta + BUFFER_SECONDS)
               /\ slept' # PACING_SLEEP_HUNDREDTHS
          ELSE slept' = PACING_SLEEP_HUNDREDTHS]_vars

\* scrape_repo has just been told that 3 calls remain and that the reset is 20 s away,
\* and has slept 30 s before it turns to the next PR
C13_Witness ==
    /\ observed = RateLimitReport(3, 20)
    /\ slept = 100 * (20 + BUFFER_SECONDS)
    /\ pc \in {"probe", "entry"}
    /\ unchecked_calls = 0

\* C14: in scrape_repo no two calls that consume forge quota (issue lookup, comment
\* listing, file listing) are issued without a rate-limit check between them.
C14_CheckBetweenForgeCalls == unchecked_calls <= 1

-----------------------------------------------------------------------------
(* Properties of normalization and loading *)

\* the loop has left the current record without writing anything and the run goes on
RecordSkipped ==
    /\ final_store' = final_store
    /\ written' = written
    /\ \/ pc' = "done" /\ rec_idx = Len(list_of_dicts)
       \/ pc' \in {"check_new", "o_get_new"} /\ rec_idx' = rec_idx + 1

\* the run has ended at this step without writing anything
RunAborted ==
    /\ pc' = "aborted"
    /\ final_store' = final_store
    /\ written' = written
    /\ processed' = processed

\* the .obo sibling of a path holds the conversion of the file at that path
ConvertedFrom(path) ==
    /\ ~tmp[path].absent
    /\ tmp'[OboSibling(path)] = FileOf(tmp[path].url, FALSE, TRUE)

\* C15: owl2obo has three outcomes and analyze_repo reacts to each.  When ROBOT ends
\* with status zero on both files, analysis goes on with the same record on the two
\* converted .obo files; when ROBOT reports an invalid ontology file for either file
\* (and fails on neither), the record is skipped: nothing is written for it and the run
\* goes on; when ROBOT fails in any other way on a file, the whole run is aborted.
C15_NormalizationOutcomes ==
    [][observed'.call = "owl2obo" =>
          LET results == {observed'.robot_new, observed'.robot_old}
          IN  IF "failed" \in results THEN RunAborted
              ELSE IF "invalid" \in results THEN RecordSkipped
              ELSE /\ pc' = "load"
                   /\ rec_idx' = rec_idx
                   /\ ConvertedFrom(NewFilePath)
                   /\ ConvertedFrom(OldFilePath)
                   /\ final_store' = final_store]_vars

\* a record was skipped because ROBOT converted the new file and found the old one
\* invalid, and the run has turned to the next record
C15_Witness ==
    /\ observed = Owl2OboResults("success", "invalid")
    /\ pc = "check_new"
    /\ rec_idx > 1
    /\ (rec_idx - 1) \notin WrittenPositions

\* C16: a failure of get_adapter on either revision is classified.  A ValueError or a
\* FileNotFoundError skips that record only: nothing is written for it and the run goes
\* on with the next record.  Any other exception aborts the whole run: nothing is
\* written and no record is processed after it.
C16_LoadFailureClassified ==
    [][/\ observed'.call = "get_adapter" =>
              IF observed'.raised \in {"ValueError", "FileNotFoundError"} THEN RecordSkipped
              ELSE IF observed'.raised = "ok" THEN pc' # "aborted"
              ELSE RunAborted
       /\ pc = "aborted" => (processed' = processed /\ final_store' = final_store)]_vars

-----------------------------------------------------------------------------
(* Properties of the resume logic and of the final store *)

\* the PR numbers of the records of a readable store
StoreNumbers(store) == PrNumbers(PullRequestsOf(store))

\* C17: the resume logic takes an absent final store for the empty set of identifiers.
\* A run that starts with overwrite disabled and no final store on disk does not fail: it
\* selects every harvested record.  A run that starts with overwrite disabled on a
\* readable final store selects exactly the records whose number is harvested and not
\* analyzed, whatever the order of the numbers and the gaps between them.
C17_AbsentStoreIsEmptySet ==
    [][(pc = "a_start" /\ ~overwrite /\ Loadable(raw_store)) =>
          IF ~output_exists
          THEN /\ pc' # "aborted"
               /\ list_of_dicts' = PullRequestsOf(raw_store)
          ELSE (Loadable(final_store) /\ pc' # "returned") =>
                  /\ pc' # "aborted"
                  /\ PrNumbers(list_of_dicts') = StoreNumbers(raw_store) \ StoreNumbers(final_store)]_vars

\* an intermediate store as one run of scrape_repo writes it: the records of one PR are
\* next to one another
ScrapeProducible(store) ==
    \A i, j \in 1..Len(store) :
        (i < j /\ store[i].pr_number = store[j].pr_number) =>
            \A k \in i..j : store[k].pr_number = store[i].pr_number

\* the positions of the final store this run has written a record to
RunPositions == (Len(final_store) - Len(written) + 1)..Len(final_store)

IsPrefix(a, b) == Len(a) <= Len(b) /\ SubSeq(b, 1, Len(a)) = a

\* C19: a run that does not overwrite, and every run once it has started, only appends
\* to the final store: at every step, also the step at which the run halts on a fatal
\* error, the content of the store before the step is a prefix of its content after it.
C19_AppendOnly ==
    [][(pc = "a_start" /\ overwrite) \/ IsPrefix(final_store, final_store')]_vars

\* a resumed run appended a record to the records it found and then halted on a fatal
\* error
C19_Witness ==
    /\ pc = "aborted"
    /\ ~overwrite
    /\ Len(written) > 0
    /\ Len(FoundFinalStore) > 1
    /\ IsPrefix(FoundFinalStore, final_store)

\* the positions of the metadata blocks in a store
MetaPositions(store) == { i \in 1..Len(store) : store[i].kind = "meta" }

\* C20: the metadata block is written once, as the first entry, whenever the run writes
\* a fresh final-store file (the file did not exist, or it is overwritten), and is not
\* written when the run appends to an existing file; the final store never holds two
\* metadata blocks nor a metadata block after a record.
C20_MetadataFirstInFreshStore ==
    [][/\ MetaPositions(final_store') \subseteq {1}
       /\ (pc = "a_start" /\ Loadable(raw_store)) =>
              IF overwrite \/ ~output_exists
              THEN final_store' = << Metadata >>
              ELSE final_store' = final_store]_vars

-----------------------------------------------------------------------------
(* Properties of the records of the final store *)

\* a change list without the lines "create None"
WithoutSentinel(lines) ==
    LET Kept(line) == line # "create None" IN SelectSeq(lines, Kept)

\* C21: every record analyze_repo writes carries the identifier and the narrative fields
\* (title, body, labels, comments, closed issues) of the intermediate record it was made
\* from, unchanged, and in place of the changed files the lines the diff of old against
\* new emitted, in the order of emission (onto_diff_curator leaves out the lines
\* "create None").
C21_NarrativeCopiedChangesInOrder ==
    \A i \in 1..Len(written) :
        LET source == list_of_dicts[written[i].rec]
            record == RunFinalFragments[i]
        IN  /\ record.pr_number = source.pr_number
            /\ record.narrative = source.narrative
            /\ record.closed_issues = source.closed_issues
            /\ "changed_files" \notin DOMAIN record
            /\ record.changes = (IF variant = "ontodiff_curator" THEN written[i].emitted
                                 ELSE WithoutSentinel(written[i].emitted))

\* ontodiff_curator has written a record with two change lines for the second record it
\* processed
C21_Witness ==
    /\ variant = "ontodiff_curator"
    /\ Len(written) > 0
    /\ written[Len(written)].rec > 1
    /\ final_store[Len(final_store)].changes = << "create None", "rename A to B" >>
    /\ final_store[Len(final_store)].narrative = list_of_dicts[written[Len(written)].rec].narrative

\* a step at which both revisions were loaded and diffed
Diffed == observed'.call = "get_adapter" /\ observed'.raised = "ok"

\* the step has appended a record with the given change list to the final store
Appended(changes) ==
    /\ Len(final_store') = Len(final_store) + 1
    /\ final_store'[Len(final_store')].changes = changes

\* C22 (as stated): a record is written if and only if the diff produced at least one
\* change operation, and no record written has an empty change list.
C22_WrittenIffChanged ==
    [][Diffed =>
          IF observed'.emitted # << >>
          THEN Len(final_store') = Len(final_store) + 1
               /\ final_store'[Len(final_store')].changes # << >>
          ELSE final_store' = final_store]_vars

\* C22 (amended): analyze_repo of ontodiff_curator writes a record if and only if the
\* diff emitted at least one line, and writes all the lines; analyze_repo of
\* onto_diff_curator writes a record for every pair of revisions it loaded, with the
\* lines other than "create None", also when no line was emitted.
C22_WrittenIffChangedInNewerVariant ==
    [][Diffed =>
          IF variant = "ontodiff_curator"
          THEN IF observed'.emitted # << >>
               THEN Appended(observed'.emitted)
               ELSE final_store' = final_store
          ELSE Appended(WithoutSentinel(observed'.emitted))]_vars

\* ontodiff_curator has loaded and diffed the revisions of a record, found no change and
\* written nothing for it, after it wrote a record for an earlier one
C22_Witness ==
    /\ variant = "ontodiff_curator"
    /\ observed = LoadResult("ok", << >>)
    /\ Len(written) > 0
    /\ Len(processed) > Len(written)
    /\ \A i \in 1..Len(written) : RunFinalFragments[i].changes # << >>

-----------------------------------------------------------------------------
(* Properties of the harvest of one PR *)

\* the positions of the loop body of scrape_repo that follow the merge-status probe
AfterProbe == {"entry", "issue", "files", "file", "write", "pace"}

\* C23: scrape_repo of ontodiff_curator goes past the merge-status probe only for a PR
\* the probe reports merged: no record, no issue lookup and no file listing is made for a
\* PR that was closed without merging.
C23_OnlyMergedRetained ==
    variant = "ontodiff_curator" =>
        /\ pc \in AfterProbe => pull_requests[pr_idx].merged
        /\ \A i \in 1..Len(appended) : pull_requests[appended[i]].merged

\* a run of ontodiff_curator has ended; it wrote a record for a merged PR and went
\* through a PR that was not merged
C23_Witness ==
    /\ variant = "ontodiff_curator"
    /\ pc = "done"
    /\ Len(appended) > 0
    /\ \E k \in visited : ~pull_requests[k].merged

\* the numbers a closed-issue list is to hold for the bodies of the listings: #50 is an
\* issue, #51 a pull request, "#5x" and "#" are no references
ExpectedIssues(body) ==
    IF body \in {Fixes50, Fixes50And51} THEN << 50 >> ELSE << >>

\* C24: the closed-issue list of the record scrape_repo builds holds exactly the numbers
\* of the tokens '#' + digits of the body that are true issues, a referenced pull request
\* left out; the record of a PR with body "... #50 ... #51" and one matching file has one
\* closed issue, #50, and one changed file.
C24_ClosedIssuesAreTrueIssues ==
    /\ pc \in {"files", "file", "write", "pace"} =>
          pr_entry.closed_issues = ExpectedIssues(pull_requests[pr_idx].body)
    /\ \A i \in 1..Len(appended) :
          LET pr == pull_requests[appended[i]]
          IN  /\ RunFragments[i].closed_issues = ExpectedIssues(pr.body)
              /\ (pr.body = Fixes50And51 /\ pr.files = << InSrcDir(repo), Readme >>) =>
                     Len(RunFragments[i].changed_files) = 1

\* a run has ended and wrote, for the PR whose body refers to #50 and to #51, a record
\* with the one closed issue #50 and one changed file
C24_Witness ==
    /\ pc = "done"
    /\ \E i \in 1..Len(appended) :
          /\ pull_requests[appended[i]].body = Fixes50And51
          /\ RunFragments[i].closed_issues = << 50 >>
          /\ Len(RunFragments[i].changed_files) = 1

\* C25: whenever scrape_repo leaves a PR, to turn to the next one or to end the loop, it
\* has just consulted the rate limit and slept the pacing sleep, whether the PR was
\* kept, discarded or failed with an exception.
C25_GovernorAfterEveryPR ==
    [][(pc \in AfterProbe \cup {"probe"} /\ (pr_idx' # pr_idx \/ pc' = "done")) =>
          /\ observed'.call = "check_rate_limit"
          /\ slept' = PacingSleep(observed'.remaining, observed'.delta)]_vars

-----------------------------------------------------------------------------
(* Properties of the layout of the stores *)

\* the records of a store: its fragments other than the metadata
RecordsOf(store) ==
    LET IsRecord(fragment) == fragment.kind # "meta" IN SelectSeq(store, IsRecord)

\* the store holds no record yet, or it parses as one document whose pull_requests list
\* holds every record of the store
ReadsBackWhole(store) ==
    RecordsOf(store) # << >> =>
        /\ Loadable(store)
        /\ PullRequestsOf(store) = RecordsOf(store)

\* analyze_repo has read the intermediate store and gone on to the output file
RunHasOpenedOutput == pc \notin {"start", "a_start"} /\ Loadable(raw_store)

\* C26: in the stores of ontodiff_curator the pull_requests key is written once and
\* before every list fragment, however the run started (file overwritten, file not
\* there before, records appended to a file an earlier run left well formed), so that at
\* every point of a run the file reads back as one document whose pull_requests list
\* holds every record written so far.
C26_HeaderOnceBeforeRecords ==
    variant = "ontodiff_curator" =>
        /\ ReadsBackWhole(raw_store)
        /\ (RunHasOpenedOutput /\ (overwrite \/ ReadsBackWhole(FoundFinalStore))) =>
               ReadsBackWhole(final_store)

-----------------------------------------------------------------------------
(* Properties of the files download_file writes *)

\* C27: download_file changes the destination only when the response was a success, and
\* then the whole content of the file is the body of the response; a read timeout and any
\* other request failure leave every file of the temporary directory, the destination
\* and a file an earlier record left there included, as it was.
C27_DestinationWrittenOnlyOnSuccess ==
    [][\A side \in {"new", "old"} :
          pc \in FetchPcs(side) =>
              /\ tmp' \in {tmp, [tmp EXCEPT ![DestinationOf(side)] = Downloaded(side)]}
              /\ (timeouts' # timeouts \/ failed_fetch' # failed_fetch) => tmp' = tmp
              /\ (pc' \notin FetchPcs(side) /\ pc' # "aborted" /\ rec_idx \notin failed_fetch') =>
                     tmp'[DestinationOf(side)] = Downloaded(side)]_vars

\* the download of the new revision of a later record has failed after a read timeout,
\* and the file an earlier record left at the destination is still there
C27_Witness ==
    /\ pc = "check_old"
    /\ rec_idx > 1
    /\ rec_idx \in failed_fetch
    /\ timeouts > 0
    /\ ~tmp[NewFilePath].absent
    /\ tmp[NewFilePath].url # UrlInPr

====
